---- MODULE Spec2Model ----
(***************************************************************************)
(* REGINA backend (src/main.py): POST /event, GET /regina/overview and     *)
(* GET /regina/alerts over one Deta Base of events.                        *)
(*                                                                         *)
(* Pattern names are modelled as positive integers standing for strings in *)
(* their lexicographic order (sorted() in regina_alerts sorts them).       *)
(***************************************************************************)
EXTENDS Integers, Sequences, FiniteSets, TLC

VARIABLES store, pc, op, items, last, resp, nPosts, nOk

vars == <<store, pc, op, items, last, resp, nPosts, nOk>>

(***************************************************************************)
(* Python float arithmetic (IEEE-754 binary64, round to nearest even).     *)
(* A natural number is a little-endian sequence of limbs in radix 2^15,    *)
(* without leading zero limbs; a positive float is [m, e] with value       *)
(* m * 2^e and m of exactly MantBits bits.                                 *)
(***************************************************************************)
LimbBits == 15

Base == 2^LimbBits

MantBits == 53

\* w, with v evaluated first: Python evaluates an operand before the
\* operation that uses it
Force(v, w) == IF v = v THEN w ELSE w

Max(a, b) == IF a >= b THEN a ELSE b

Min(a, b) == IF a <= b THEN a ELSE b

Limb(a, i) == IF i >= 1 /\ i <= Len(a) THEN a[i] ELSE 0

\* a without its leading zero limbs
BNorm(a) ==
    SubSeq(a, 1, IF \A i \in 1..Len(a) : a[i] = 0 THEN 0
                 ELSE CHOOSE i \in 1..Len(a) :
                          a[i] # 0 /\ \A j \in (i + 1)..Len(a) : a[j] = 0)

RECURSIVE BFromInt(_)
BFromInt(k) == IF k = 0 THEN <<>> ELSE <<k % Base>> \o BFromInt(k \div Base)

RECURSIVE BToInt(_)
BToInt(a) == IF a = <<>> THEN 0 ELSE a[1] + Base * BToInt(Tail(a))

\* -1, 0, 1 as a < b, a = b, a > b
BCmp(a, b) ==
    IF Len(a) # Len(b) THEN (IF Len(a) > Len(b) THEN 1 ELSE -1)
    ELSE IF a = b THEN 0
    ELSE LET i == CHOOSE k \in 1..Len(a) :
                      a[k] # b[k] /\ \A j \in (k + 1)..Len(a) : a[j] = b[j]
         IN  IF a[i] > b[i] THEN 1 ELSE -1

\* the carry into limb i of a + b + c, c in {0, 1}
CarryIn(a, b, c, i) ==
    \/ c = 1 /\ \A l \in 1..(i - 1) : Limb(a, l) + Limb(b, l) = Base - 1
    \/ \E j \in 1..(i - 1) :
          /\ Limb(a, j) + Limb(b, j) >= Base
          /\ \A l \in (j + 1)..(i - 1) : Limb(a, l) + Limb(b, l) = Base - 1

\* a + b + c, c in {0, 1}
BAddC(a, b, c) ==
    BNorm([i \in 1..(Max(Len(a), Len(b)) + 1) |->
              (Limb(a, i) + Limb(b, i)
                 + (IF i = 1 THEN c ELSE IF CarryIn(a, b, c, i) THEN 1 ELSE 0))
              % Base])

BAdd(a, b) == BAddC(a, b, 0)

\* the borrow from limb i of a - b
BorrowIn(a, b, i) ==
    \E j \in 1..(i - 1) :
       /\ Limb(a, j) < Limb(b, j)
       /\ \A l \in (j + 1)..(i - 1) : Limb(a, l) = Limb(b, l)

\* a - b for a >= b
BSub(a, b) ==
    BNorm([i \in 1..Len(a) |->
              (Limb(a, i) - Limb(b, i) - (IF BorrowIn(a, b, i) THEN 1 ELSE 0))
              % Base])

\* a * k + c from limb i on, with the limbs found so far in acc
RECURSIVE BMulSmallC(_, _, _, _, _)
BMulSmallC(a, k, i, c, acc) ==
    IF i > Len(a) THEN (IF c = 0 THEN acc ELSE Append(acc, c))
    ELSE BMulSmallC(a, k, i + 1, (a[i] * k + c) \div Base,
                    Append(acc, (a[i] * k + c) % Base))

\* a * k for 0 <= k < Base
BMulSmall(a, k) == IF k = 0 THEN <<>> ELSE BMulSmallC(a, k, 1, 0, <<>>)

BShlLimbs(a, q) == IF a = <<>> THEN <<>> ELSE [i \in 1..q |-> 0] \o a

RECURSIVE BMul(_, _)
BMul(a, b) ==
    IF a = <<>> \/ b = <<>> THEN <<>>
    ELSE LET hi == BMul(a, Tail(b))
             lo == BMulSmall(a, b[1])
         IN  Force(<<hi, lo>>, BAdd(lo, BShlLimbs(hi, 1)))

\* a * 2^s
BShl(a, s) ==
    LET q == s \div LimbBits
        r == s % LimbBits
    IN  BNorm([i \in 1..(Len(a) + q + 1) |->
                  ((Limb(a, i - q) * 2^r) % Base)
                    + (Limb(a, i - q - 1) \div 2^(LimbBits - r))])

\* floor(a / 2^s)
BShr(a, s) ==
    LET q == s \div LimbBits
        r == s % LimbBits
    IN  BNorm([i \in 1..Max(Len(a) - q, 0) |->
                  (Limb(a, i + q) \div 2^r)
                    + ((Limb(a, i + q + 1) % 2^r) * 2^(LimbBits - r))])

\* a % 2^s
BLow(a, s) ==
    LET q == s \div LimbBits
        r == s % LimbBits
    IN  BNorm([i \in 1..Min(Len(a), q + 1) |->
                  IF i <= q THEN a[i] ELSE a[i] % 2^r])

\* long division by k from limb i down, with remainder r and quotient limbs q
RECURSIVE BDivSmallFrom(_, _, _, _, _)
BDivSmallFrom(a, k, i, r, q) ==
    IF i = 0 THEN [q |-> q, r |-> r]
    ELSE BDivSmallFrom(a, k, i - 1, (r * Base + a[i]) % k,
                       <<(r * Base + a[i]) \div k>> \o q)

\* quotient and remainder of a by k, 0 < k <= Base
BDivSmall(a, k) ==
    LET d == BDivSmallFrom(a, k, Len(a), 0, <<>>)
    IN  [q |-> BNorm(d.q), r |-> d.r]

RECURSIVE BitLenSmall(_)
BitLenSmall(k) == IF k = 0 THEN 0 ELSE 1 + BitLenSmall(k \div 2)

BBitLen(a) ==
    IF a = <<>> THEN 0 ELSE LimbBits * (Len(a) - 1) + BitLenSmall(a[Len(a)])

BOdd(a) == a # <<>> /\ a[1] % 2 = 1

\* the quotient digit floor(r / b) < Base, for b of n limbs with its top limb
\* at least Base / 2 and r < b * Base: the estimate from the top limbs is at
\* most 2 too large
BDigit(r, b) ==
    LET n    == Len(b)
        qhat == Min(Base - 1, (Limb(r, n + 1) * Base + Limb(r, n)) \div b[n])
    IN  IF BCmp(BMulSmall(b, qhat), r) <= 0 THEN qhat
        ELSE IF BCmp(BMulSmall(b, qhat - 1), r) <= 0 THEN qhat - 1
        ELSE qhat - 2

\* long division by b from limb i down, with remainder r and quotient limbs q
RECURSIVE BDivModFrom(_, _, _, _, _)
BDivModFrom(a, b, i, r, q) ==
    IF i = 0 THEN [q |-> q, r |-> r]
    ELSE LET cur == BNorm(<<a[i]>> \o r)
             d   == BDigit(cur, b)
             r2  == BSub(cur, BMulSmall(b, d))
         IN  Force(<<r2>>, BDivModFrom(a, b, i - 1, r2, <<d>> \o q))

\* quotient and remainder of a by b (b > 0), by long division in radix Base
\* on operands scaled so that the top limb of the divisor is at least Base/2
BDivMod(a, b) ==
    LET s  == LimbBits - BitLenSmall(b[Len(b)])
        a2 == BShl(a, s)
        b2 == BShl(b, s)
        i0 == Max(Len(a2) - Len(b2) + 1, 0)
        d  == BDivModFrom(a2, b2, i0, SubSeq(a2, i0 + 1, Len(a2)), <<>>)
    IN  Force(<<a2, b2>>, [q |-> BNorm(d.q), r |-> BShr(d.r, s)])

\* n / 2^s rounded to the nearest integer, ties to even
RoundShift(n, s) ==
    IF s = 0 THEN n
    ELSE LET q == BShr(n, s)
             c == BCmp(BLow(n, s), BShl(<<1>>, s - 1))
         IN  IF c > 0 \/ (c = 0 /\ BOdd(q)) THEN BAddC(q, <<>>, 1) ELSE q

FZero == [m |-> <<>>, e |-> 0]

\* the float nearest to n * 2^e
FRound(n, e) ==
    IF n = <<>> THEN FZero
    ELSE LET l == BBitLen(n)
             m == RoundShift(n, l - MantBits)
         IN  IF l <= MantBits
             THEN [m |-> BShl(n, MantBits - l), e |-> e - (MantBits - l)]
             ELSE IF Force(<<m>>, BBitLen(m)) > MantBits
             THEN [m |-> BShr(m, 1), e |-> e + (l - MantBits) + 1]
             ELSE [m |-> m, e |-> e + (l - MantBits)]

\* the float nearest to (n + d) * 2^e with 0 < d < 1 when sticky, d = 0
\* otherwise; n has at least MantBits + 2 bits
FRoundSticky(n, e, sticky) ==
    LET n2 == BAddC(BAdd(n, n), <<>>, 1)
    IN  IF sticky THEN Force(<<n2>>, FRound(n2, e - 1)) ELSE FRound(n, e)

\* float(k) for an int k, 0 <= k < 2^30
FFromInt(k) == FRound(BFromInt(k), 0)

\* a / b for ints 0 <= a, 0 < b < 2^15 (int true division)
FDivInt(a, b) ==
    LET k == MantBits + 2 + BitLenSmall(b)
        d == BDivSmall(BShl(BFromInt(a), k), b)
    IN  Force(<<d>>, FRoundSticky(d.q, 0 - k, d.r # 0))

\* x * y for floats
FMul(x, y) ==
    LET p == BMul(x.m, y.m)
    IN  Force(<<x, y, p>>, FRound(p, x.e + y.e))

\* x / y for floats, x, y > 0
FDiv(x, y) ==
    LET k == MantBits + 3
        d == BDivMod(BShl(x.m, k), y.m)
    IN  Force(<<x, y, d>>, FRoundSticky(d.q, x.e - y.e - k, d.r # <<>>))

\* x > y for floats x, y >= 0
FGreater(x, y) ==
    IF Force(<<x, y>>, x.m) = <<>> THEN FALSE
    ELSE IF y.m = <<>> THEN TRUE
    ELSE IF x.e >= y.e THEN BCmp(BShl(x.m, x.e - y.e), y.m) > 0
    ELSE BCmp(x.m, BShl(y.m, y.e - x.e)) > 0

\* round(x, 2) for a float x >= 0, as the integer number of hundredths
\* (the correctly rounded two-decimal value, ties of the exact binary value
\* to even)
Round2(x) ==
    LET n == BMulSmall(x.m, 100)
        h == IF x.e >= 0 THEN BShl(n, x.e) ELSE RoundShift(n, 0 - x.e)
    IN  Force(<<x, n, h>>, BToInt(h))

(***************************************************************************)
(* JSON / Python values.  A value is [t, s, n, items]: t its type, s the   *)
(* text of a str, n the value of an int, items the elements of a list.     *)
(* A dict is a TLA+ function whose domain is its set of keys.              *)
(***************************************************************************)
None == [t |-> "null", s |-> "", n |-> 0, items |-> <<>>]

Str(x) == [t |-> "str", s |-> x, n |-> 0, items |-> <<>>]

IntVal(k) == [t |-> "int", s |-> "", n |-> k, items |-> <<>>]

List(xs) == [t |-> "list", s |-> "", n |-> 0, items |-> xs]

EmptyDict == <<>>

\* d.get(k, default)
Get(d, k, default) == IF k \in DOMAIN d THEN d[k] ELSE default

\* the one-character substrings of a str, as pattern names (pattern 1 is
\* "a", pattern 2 is "b")
Chars(x) == IF x = "ab" THEN <<1, 2>> ELSE <<>>

\* whether `for p in v` / set(v) works on v
Iterable(v) == v.t \in {"list", "str"}

\* the elements `for p in v` yields
Iter(v) == IF v.t = "list" THEN v.items ELSE Chars(v.s)

(***************************************************************************)
(* collections.Counter: a sequence of [key, count] in first-insertion      *)
(* order (the order of the underlying dict).                               *)
(***************************************************************************)
CounterGet(c, k) ==
    IF \E i \in 1..Len(c) : c[i].key = k
    THEN c[CHOOSE i \in 1..Len(c) : c[i].key = k].count
    ELSE 0

\* c[k] += 1
CounterInc(c, k) ==
    IF \E i \in 1..Len(c) : c[i].key = k
    THEN [i \in 1..Len(c) |->
             IF c[i].key = k THEN [key |-> k, count |-> c[i].count + 1] ELSE c[i]]
    ELSE Append(c, [key |-> k, count |-> 1])

\* for k in ks[lo..hi]: c[k] += 1 (the loop is split in halves, which keeps
\* the order of the increments)
RECURSIVE CounterIncRange(_, _, _, _)
CounterIncRange(c, ks, lo, hi) ==
    IF lo > hi THEN c
    ELSE IF lo = hi THEN CounterInc(c, ks[lo])
    ELSE LET mid == (lo + hi) \div 2
             c2  == CounterIncRange(c, ks, lo, mid)
         IN  Force(<<c2>>, CounterIncRange(c2, ks, mid + 1, hi))

CounterIncAll(c, ks) == Force(<<ks>>, CounterIncRange(c, ks, 1, Len(ks)))

RemoveAt(q, i) == SubSeq(q, 1, i - 1) \o SubSeq(q, i + 1, Len(q))

\* the first n entries in insertion order, not the n largest
MostCommonUnsorted(c, n) == SubSeq(c, 1, Min(n, Len(c)))

\* Counter.most_common(n): sorted by count, descending and stable, cut to n
RECURSIVE MostCommon(_, _)
MostCommon(c, n) ==
    IF n = 0 \/ c = <<>> THEN <<>>
    ELSE LET i == CHOOSE j \in 1..Len(c) :
                      /\ \A k \in 1..Len(c) : c[k].count <= c[j].count
                      /\ \A k \in 1..(j - 1) : c[k].count < c[j].count
         IN  <<c[i]>> \o MostCommon(RemoveAt(c, i), n - 1)

(***************************************************************************)
(* GET /regina/overview                                                    *)
(***************************************************************************)
TopN == 10

LowEnergy == 2

DefaultEnergy == 3

LowEnergyCount == 3

\* the advisory of line 154, in ASCII (the source writes "piu" with an accent)
LowEnergyAdvice == "Hai preso diverse decisioni con energia molto bassa. Rivedi quelle piu critiche."

PatternsOf(e) == Get(e, "pattern_rilevati", List(<<>>))

\* for e in events[lo..hi]: for p in e.get("pattern_rilevati", []):
\*     pattern_counter[p] += 1
RECURSIVE PatternCounterRange(_, _, _, _)
PatternCounterRange(c, events, lo, hi) ==
    IF lo > hi THEN c
    ELSE IF lo = hi THEN CounterIncAll(c, Iter(PatternsOf(events[lo])))
    ELSE LET mid == (lo + hi) \div 2
             c2  == PatternCounterRange(c, events, lo, mid)
         IN  Force(<<c2>>, PatternCounterRange(c2, events, mid + 1, hi))

PatternCounter(c, events) == PatternCounterRange(c, events, 1, Len(events))

TopPatterns(events) ==
    LET mc == MostCommon(PatternCounter(<<>>, events), TopN)
    IN  [i \in 1..Len(mc) |-> [nome |-> mc[i].key, conteggio |-> mc[i].count]]

\* .get("stato_interno", {}).get("energia", 3)
EnergyOf(e) == Get(Get(e, "stato_interno", EmptyDict), "energia", DefaultEnergy)

\* energia < 2 in place of energia <= 2
IsLowEnergyStrict(e) == EnergyOf(e) < LowEnergy

IsLowEnergy(e) == EnergyOf(e) <= LowEnergy

low_energy_events(events) == SelectSeq(events, IsLowEnergy)

Warnings(events) ==
    IF Len(low_energy_events(events)) >= LowEnergyCount
    THEN <<LowEnergyAdvice>> ELSE <<>>

\* iterating a pattern_rilevati that is neither a list nor a str raises
\* TypeError, which the handlers do not catch
ScanRaises(events) ==
    \E i \in 1..Len(events) : ~Iterable(PatternsOf(events[i]))

ServerError(o) == [op |-> o, status |-> 500]

regina_overview(events) ==
    IF ScanRaises(events) THEN ServerError("overview")
    ELSE [op |-> "overview", status |-> 200,
          totale_eventi |-> Len(events),
          pattern_top |-> TopPatterns(events),
          warning_correnti |-> Warnings(events)]

(***************************************************************************)
(* GET /regina/alerts                                                      *)
(***************************************************************************)
Threshold == 2

Range(q) == {q[i] : i \in 1..Len(q)}

\* sorted(S) for a set of pattern names
RECURSIVE Sorted(_)
Sorted(S) ==
    IF S = {} THEN <<>>
    ELSE LET m == CHOOSE x \in S : \A y \in S : x <= y
         IN  <<m>> \o Sorted(S \ {m})

\* itertools.combinations(q, 2)
RECURSIVE Combinations2(_)
Combinations2(q) ==
    IF Len(q) < 2 THEN <<>>
    ELSE [i \in 1..(Len(q) - 1) |-> <<q[1], q[i + 1]>>] \o Combinations2(Tail(q))

\* patterns = list(set(e.get("pattern_rilevati", []))), in sorted order
DistinctPatterns(e) == Sorted(Range(Iter(PatternsOf(e))))

\* for e in events[lo..hi]: for p in patterns: pattern_freq[p] += 1
RECURSIVE PatternFreqRange(_, _, _, _)
PatternFreqRange(c, events, lo, hi) ==
    IF lo > hi THEN c
    ELSE IF lo = hi THEN CounterIncAll(c, DistinctPatterns(events[lo]))
    ELSE LET mid == (lo + hi) \div 2
             c2  == PatternFreqRange(c, events, lo, mid)
         IN  Force(<<c2>>, PatternFreqRange(c2, events, mid + 1, hi))

PatternFreq(c, events) == PatternFreqRange(c, events, 1, Len(events))

\* for e in events[lo..hi]:
\*     for a, b in combinations(sorted(patterns), 2): pair_counter[(a, b)] += 1
RECURSIVE PairCounterRange(_, _, _, _)
PairCounterRange(c, events, lo, hi) ==
    IF lo > hi THEN c
    ELSE IF lo = hi
    THEN CounterIncAll(c, Combinations2(DistinctPatterns(events[lo])))
    ELSE LET mid == (lo + hi) \div 2
             c2  == PairCounterRange(c, events, lo, mid)
         IN  Force(<<c2>>, PairCounterRange(c2, events, mid + 1, hi))

PairCounter(c, events) == PairCounterRange(c, events, 1, Len(events))

\* (pattern_freq[a] / total_events) * (pattern_freq[b] / total_events)
\*     * total_events
Expected(fa, fb, total_events) ==
    LET x == FDivInt(fa, total_events)
        y == FDivInt(fb, total_events)
        p == FMul(x, y)
    IN  Force(<<x, y, p>>, FMul(p, FFromInt(total_events)))

\* expected > 0 and count > expected * 2
Significant(count, expected) ==
    LET doubled == FMul(expected, FFromInt(Threshold))
    IN  /\ FGreater(expected, FZero)
        /\ Force(<<doubled>>, FGreater(FFromInt(count), doubled))

\* round(count / expected, 2), in hundredths
Significance(count, expected) ==
    LET ratio == FDiv(FFromInt(count), expected)
    IN  Force(<<expected, ratio>>, Round2(ratio))

Sincronicita(events) ==
    LET pair_counter  == PairCounter(<<>>, events)
        pattern_freq  == PatternFreq(<<>>, events)
        total_events  == Max(Len(events), 1)
        expected == [i \in 1..Len(pair_counter) |->
                        Expected(CounterGet(pattern_freq, pair_counter[i].key[1]),
                                 CounterGet(pattern_freq, pair_counter[i].key[2]),
                                 total_events)]
        hits    == SelectSeq([i \in 1..Len(pair_counter) |-> i],
                       LAMBDA i : Significant(pair_counter[i].count, expected[i]))
    IN  Force(<<pair_counter, pattern_freq, expected>>,
        [j \in 1..Len(hits) |->
            [pattern_a    |-> pair_counter[hits[j]].key[1],
             pattern_b    |-> pair_counter[hits[j]].key[2],
             significance |-> Significance(pair_counter[hits[j]].count,
                                           expected[hits[j]]),
             interpretazione |-> "Questi pattern emergono insieme piu del caso."]])

regina_alerts(events) ==
    IF ScanRaises(events) THEN ServerError("alerts")
    ELSE [op |-> "alerts", status |-> 200, sincronicita |-> Sincronicita(events)]

(***************************************************************************)
(* POST /event                                                             *)
(***************************************************************************)
MaxPosts == 3

MaxPage == 2

\* validated request bodies (EventInput instances)
EventInputs ==
    { [titolo |-> "t1", descrizione |-> "d1", tipo |-> "decisione",
       contesto |-> [dominio |-> "lavoro", luogo |-> None,
                     dispositivo |-> None, progetti_paralleli |-> None],
       stato_interno |-> [energia |-> 2, stress |-> 4, umore |-> "stanco",
                          note_soggettive |-> None]],
      [titolo |-> "t2", descrizione |-> "d2", tipo |-> "idea",
       contesto |-> [dominio |-> "casa", luogo |-> Str("Roma"),
                     dispositivo |-> Str("telefono"),
                     progetti_paralleli |-> IntVal(2)],
       stato_interno |-> [energia |-> 3, stress |-> 1, umore |-> "sereno",
                          note_soggettive |-> Str("ok")]] }

JObj(d) == [t |-> "obj", d |-> d]

JOther(v) == [t |-> v.t, d |-> EmptyDict]

\* what client.chat.completions.create does: it raises, or it returns a
\* content that json.loads parses (to json) or rejects
Replies ==
    << [raises |-> TRUE, parsable |-> FALSE, json |-> JOther(None)],
       [raises |-> FALSE, parsable |-> FALSE, json |-> JOther(None)],
       [raises |-> FALSE, parsable |-> TRUE,
        json |-> JObj([pattern_rilevati |-> List(<<1, 2>>),
                       decisione_suggerita |-> Str("rimanda"),
                       warning |-> None])],
       [raises |-> FALSE, parsable |-> TRUE,
        json |-> JObj([pattern_rilevati |-> List(<<1, 1>>),
                       decisione_suggerita |-> None,
                       warning |-> Str("attenzione")])],
       [raises |-> FALSE, parsable |-> TRUE,
        json |-> JObj([decisione_suggerita |-> Str("attendi")])],
       [raises |-> FALSE, parsable |-> TRUE,
        json |-> JObj([pattern_rilevati |-> None,
                       decisione_suggerita |-> None,
                       warning |-> None])],
       [raises |-> FALSE, parsable |-> TRUE,
        json |-> JObj([pattern_rilevati |-> Str("ab"),
                       decisione_suggerita |-> None,
                       warning |-> None])],
       [raises |-> FALSE, parsable |-> TRUE, json |-> JOther(List(<<1>>))] >>

NonParsable == "LLM_output_non_parsable"

\* a dump that keeps the required field only
DumpContestoRequired(c) ==
    [dominio |-> c.dominio, luogo |-> None, dispositivo |-> None,
     progetti_paralleli |-> None]

\* Contesto.model_dump()
DumpContesto(c) ==
    [dominio |-> c.dominio, luogo |-> c.luogo, dispositivo |-> c.dispositivo,
     progetti_paralleli |-> c.progetti_paralleli]

\* StatoInterno.model_dump()
DumpStatoInterno(x) ==
    [energia |-> x.energia, stress |-> x.stress, umore |-> x.umore,
     note_soggettive |-> x.note_soggettive]

EmptyOutcome ==
    [compilato |-> FALSE, dopo_giorni |-> None, risultato |-> None,
     tempo_speso |-> None, soldi_spesi |-> None, decisione_corretta |-> None,
     note_post_mortem |-> None]

\* a fallback that leaves the warning null
extract_patterns_silent(reply) ==
    IF reply.parsable THEN reply.json
    ELSE JObj([pattern_rilevati |-> List(<<>>),
               decisione_suggerita |-> None,
               warning |-> None])

\* the value extract_patterns returns for a reply that did not raise
extract_patterns(reply) ==
    IF reply.parsable THEN reply.json
    ELSE JObj([pattern_rilevati |-> List(<<>>),
               decisione_suggerita |-> None,
               warning |-> Str(NonParsable)])

\* the key of the oldest item only
MaxKeyStale(db) == IF db = <<>> THEN 0 ELSE db[1].key

RECURSIVE MaxKey(_)
MaxKey(db) == IF db = <<>> THEN 0 ELSE Max(db[1].key, MaxKey(Tail(db)))

\* a put under one fixed key, which replaces the item stored under it
PutFixedKey(db, item) ==
    LET saved == [key |-> 1,
                  timestamp |-> item.timestamp, tipo |-> item.tipo,
                  titolo |-> item.titolo, descrizione |-> item.descrizione,
                  contesto |-> item.contesto,
                  stato_interno |-> item.stato_interno,
                  outcome |-> item.outcome,
                  pattern_rilevati |-> item.pattern_rilevati,
                  decisione_suggerita |-> item.decisione_suggerita,
                  warning |-> item.warning]
    IN  [db |-> Append(SelectSeq(db, LAMBDA e : e.key # 1), saved),
         saved |-> saved]

\* events_db.put(item) without a key: the service generates a fresh one
Put(db, item) ==
    LET saved == [key |-> MaxKey(db) + 1,
                  timestamp |-> item.timestamp, tipo |-> item.tipo,
                  titolo |-> item.titolo, descrizione |-> item.descrizione,
                  contesto |-> item.contesto,
                  stato_interno |-> item.stato_interno,
                  outcome |-> item.outcome,
                  pattern_rilevati |-> item.pattern_rilevati,
                  decisione_suggerita |-> item.decisione_suggerita,
                  warning |-> item.warning]
    IN  [db |-> Append(db, saved), saved |-> saved]

\* log_event: the base store after the request and the response; an
\* exception of the model call, or of patterns.get on a value that is not
\* a dict, ends the request before the write
log_event(db, event_input, now, reply) ==
    LET patterns == extract_patterns(reply)
        full_event ==
            [timestamp |-> now, tipo |-> event_input.tipo,
             titolo |-> event_input.titolo,
             descrizione |-> event_input.descrizione,
             contesto |-> DumpContesto(event_input.contesto),
             stato_interno |-> DumpStatoInterno(event_input.stato_interno),
             outcome |-> EmptyOutcome,
             pattern_rilevati |-> Get(patterns.d, "pattern_rilevati", List(<<>>)),
             decisione_suggerita |-> Get(patterns.d, "decisione_suggerita", None),
             warning |-> Get(patterns.d, "warning", None)]
        put == Put(db, full_event)
    IN  IF reply.raises \/ patterns.t # "obj"
        THEN [db |-> db, response |-> ServerError("post")]
        ELSE [db |-> put.db,
              response |-> [op |-> "post", status |-> 200,
                            id |-> put.saved.key, event |-> put.saved]]

\* the request and the model's reply are kept beside the response
PostEvent(event_input, r) ==
    /\ pc = "idle"
    /\ nPosts < MaxPosts
    /\ LET res == log_event(store, event_input, nPosts + 1, Replies[r])
       IN  /\ store' = res.db
           /\ resp' = [response |-> res.response, input |-> event_input,
                       reply |-> r]
           /\ nOk' = IF res.response.status = 200 THEN nOk + 1 ELSE nOk
    /\ nPosts' = nPosts + 1
    /\ UNCHANGED <<pc, op, items, last>>

(***************************************************************************)
(* load_all_events: one step per events_db.fetch call.  A page holds the   *)
(* next `limit` items in key order; its `last` is the key of its final     *)
(* item while more items remain, and None (0) otherwise.                   *)
(***************************************************************************)
\* a cursor that is off by one: the item after `last` is skipped
FetchPageSkipping(db, lastKey, limit) ==
    LET rest == SelectSeq(db, LAMBDA e : e.key > lastKey + (IF lastKey = 0 THEN 0 ELSE 1))
        n    == Min(limit, Len(rest))
        page == SubSeq(rest, 1, n)
    IN  [items |-> page,
         last  |-> IF n < Len(rest) THEN page[n].key ELSE 0]

FetchPage(db, lastKey, limit) ==
    LET rest == SelectSeq(db, LAMBDA e : e.key > lastKey)
        n    == Min(limit, Len(rest))
        page == SubSeq(rest, 1, n)
    IN  [items |-> page,
         last  |-> IF n < Len(rest) THEN page[n].key ELSE 0]

StartScan(o, limit) ==
    /\ pc = "idle"
    /\ LET res == FetchPage(store, 0, limit)
       IN  items' = res.items /\ last' = res.last
    /\ pc' = "scan"
    /\ op' = o
    /\ UNCHANGED <<store, resp, nPosts, nOk>>

StartOverview(limit) == StartScan("overview", limit)

StartAlerts(limit) == StartScan("alerts", limit)

\* while res.last: res = events_db.fetch(last=res.last); items.extend(..)
FetchNext(limit) ==
    /\ pc = "scan"
    /\ last # 0
    /\ LET res == FetchPage(store, last, limit)
       IN  items' = items \o res.items /\ last' = res.last
    /\ UNCHANGED <<store, pc, op, resp, nPosts, nOk>>

Finish(o, response) ==
    /\ pc = "scan"
    /\ last = 0
    /\ op = o
    /\ resp' = [response |-> response, input |-> EmptyDict, reply |-> 0]
    /\ pc' = "idle"
    /\ op' = "none"
    /\ items' = <<>>
    /\ UNCHANGED <<store, last, nPosts, nOk>>

FinishOverview == Finish("overview", regina_overview(items))

FinishAlerts == Finish("alerts", regina_alerts(items))

NoResponse == [response |-> [op |-> "none", status |-> 0],
               input |-> EmptyDict, reply |-> 0]

Init ==
    /\ store = <<>>
    /\ pc = "idle"
    /\ op = "none"
    /\ items = <<>>
    /\ last = 0
    /\ resp = NoResponse
    /\ nPosts = 0
    /\ nOk = 0

Next ==
    \/ \E event_input \in EventInputs, r \in 1..Len(Replies) :
           PostEvent(event_input, r)
    \/ \E limit \in 1..MaxPage : StartOverview(limit)
    \/ \E limit \in 1..MaxPage : StartAlerts(limit)
    \/ \E limit \in 1..MaxPage : FetchNext(limit)
    \/ FinishOverview
    \/ FinishAlerts

Spec == Init /\ [][Next]_vars

\* the handler's return once load_all_events has returned: the Finish steps,
\* seen on pc alone
Return == pc = "scan" /\ last = 0 /\ pc' = "idle"

\* a request handler, once started, runs to its end
SpecLive ==
    /\ Spec
    /\ WF_vars(\E limit \in 1..MaxPage : FetchNext(limit))
    /\ WF_pc(Return)

(***************************************************************************)
(* The aggregations as functions of the loaded events: the store is drawn  *)
(* from bounded families of event lists and the handler's computation is   *)
(* applied to it.                                                          *)
(***************************************************************************)
MaxPatternEvents == 3

MaxEnergyEvents == 5

NPat == TopN + 2

Suffix(k) == [i \in 1..(NPat - k + 1) |-> k + i - 1]

\* pattern lists with more than TopN names, ties at the cut, names whose
\* count overtakes earlier ones, and repeats inside one list
PatternLists ==
    [k \in 1..(NPat + 1) |-> Suffix(k)] \o << <<1, 1>>, <<NPat, NPat, 1>> >>

PatternEvent(l) ==
    [pattern_rilevati |-> List(l), stato_interno |-> [energia |-> 3]]

\* events without stato_interno, without energia, with energia 1, 2, 3
EnergyEvents ==
    << [titolo |-> "t"],
       [stato_interno |-> [stress |-> 1]],
       [stato_interno |-> [energia |-> 1]],
       [stato_interno |-> [energia |-> 2]],
       [stato_interno |-> [energia |-> 3]] >>

Idle ==
    /\ pc = "idle"
    /\ op = "none"
    /\ items = <<>>
    /\ last = 0
    /\ resp = NoResponse
    /\ nPosts = 0
    /\ nOk = 0

InitAgg ==
    /\ \/ \E n \in 0..MaxPatternEvents :
            \E f \in [1..n -> 1..Len(PatternLists)] :
               store = [i \in 1..n |-> PatternEvent(PatternLists[f[i]])]
       \/ \E n \in 0..MaxEnergyEvents :
            \E f \in [1..n -> 1..Len(EnergyEvents)] :
               store = [i \in 1..n |-> EnergyEvents[f[i]]]
    /\ Idle

AggOverview ==
    /\ resp = NoResponse
    /\ resp' = [response |-> regina_overview(store), input |-> EmptyDict,
                reply |-> 0]
    /\ UNCHANGED <<store, pc, op, items, last, nPosts, nOk>>

NextAgg == AggOverview

SpecAgg == InitAgg /\ [][NextAgg]_vars

MaxT == 30

MaxFreq == 9

\* c events with both patterns, fa - c with the first only (repeated in the
\* list), fb - c with the second only, the rest with none
CoStore(T, fa, fb, c) ==
    [i \in 1..T |->
        [pattern_rilevati |->
            IF i <= c THEN List(<<2, 1>>)
            ELSE IF i <= fa THEN List(<<1, 1>>)
            ELSE IF i <= fa + fb - c THEN List(<<2>>)
            ELSE List(<<>>)]]

InitNum ==
    /\ \E T \in 0..MaxT, fa \in 0..MaxFreq, fb \in 0..MaxFreq :
          \E c \in 0..Min(fa, fb) :
             /\ fa + fb - c <= T
             /\ store = CoStore(T, fa, fb, c)
    /\ Idle

AggAlerts ==
    /\ resp = NoResponse
    /\ resp' = [response |-> regina_alerts(store), input |-> EmptyDict,
                reply |-> 0]
    /\ UNCHANGED <<store, pc, op, items, last, nPosts, nOk>>

NextNum == AggAlerts

SpecNum == InitNum /\ [][NextNum]_vars

(***************************************************************************)
(* Properties.                                                             *)
(***************************************************************************)
PostAnswered == resp.response.op = "post"

PostOk == PostAnswered /\ resp.response.status = 200

\* the pattern list of a stored event, position by position
ListOf(e) ==
    IF "pattern_rilevati" \in DOMAIN e THEN e.pattern_rilevati.items ELSE <<>>

Positions(events) ==
    UNION {{<<i, j>> : j \in 1..Len(ListOf(events[i]))} : i \in 1..Len(events)}

PatternNames(events) == {ListOf(events[x[1]])[x[2]] : x \in Positions(events)}

Occurrences(p, events) ==
    Cardinality({x \in Positions(events) : ListOf(events[x[1]])[x[2]] = p})

Has(e, p) == \E j \in 1..Len(ListOf(e)) : ListOf(e)[j] = p

Freq(p, events) == Cardinality({i \in 1..Len(events) : Has(events[i], p)})

CoCount(a, b, events) ==
    Cardinality({i \in 1..Len(events) : Has(events[i], a) /\ Has(events[i], b)})

LowEnergyStored ==
    {i \in 1..Len(store) :
        /\ "stato_interno" \in DOMAIN store[i]
        /\ "energia" \in DOMAIN store[i].stato_interno
        /\ store[i].stato_interno.energia <= 2}

\* C1: when the model's reply is not parsable as JSON, POST /event answers
\* ok and the event it stores and returns has pattern_rilevati = [],
\* decisione_suggerita = null and warning = "LLM_output_non_parsable".
C1_UnparsableReplyDegrades ==
    (PostAnswered /\ ~Replies[resp.reply].raises /\ ~Replies[resp.reply].parsable)
    => /\ resp.response.status = 200
       /\ resp.response.event.pattern_rilevati = List(<<>>)
       /\ resp.response.event.decisione_suggerita = None
       /\ resp.response.event.warning = Str("LLM_output_non_parsable")
       /\ Len(store) >= 1
       /\ store[Len(store)] = resp.response.event

C1_Witness ==
    /\ PostOk
    /\ resp.reply = 2
    /\ Len(store) = 2
    /\ store[2].warning = Str("LLM_output_non_parsable")

\* C2: every stored event has a pattern_rilevati field and that field is a
\* list, whatever the model replied.
C2_PatternRilevatiIsList ==
    \A i \in 1..Len(store) :
        /\ "pattern_rilevati" \in DOMAIN store[i]
        /\ store[i].pattern_rilevati.t = "list"

\* a stored null pattern_rilevati, and an overview request that failed on it
C2_NullStoredBreaksReads ==
    /\ \E i \in 1..Len(store) : store[i].pattern_rilevati = None
    /\ resp.response.op = "overview"
    /\ resp.response.status = 500

\* C3: whatever body the model returns (unparsable text, an object missing
\* keys, JSON that is not an object), POST /event answers ok and has stored
\* the event it returns.
C3_ReturnedReplyNeverFails ==
    (PostAnswered /\ ~Replies[resp.reply].raises)
    => /\ resp.response.status = 200
       /\ Len(store) >= 1
       /\ store[Len(store)] = resp.response.event

\* the reply [1]: a server error and nothing stored
C3_ListReplyRejected ==
    /\ PostAnswered
    /\ Replies[resp.reply].parsable
    /\ Replies[resp.reply].json.t = "list"
    /\ resp.response.status = 500
    /\ nPosts = 1
    /\ Len(store) = 0

\* C4: pattern_top of GET /regina/overview has at most 10 entries, one per
\* pattern, sorted by non-increasing conteggio; each conteggio is the number
\* of occurrences of the pattern in all the stored pattern_rilevati lists
\* (repeats inside one list counted); no pattern left out has a greater
\* count than a listed one, and none is left out while fewer than 10 are
\* listed.
C4_PatternTop ==
    resp.response.op = "overview"
    => /\ resp.response.status = 200
       /\ LET top    == resp.response.pattern_top
              listed == {top[i].nome : i \in 1..Len(top)}
          IN  /\ Len(top) <= 10
              /\ Cardinality(listed) = Len(top)
              /\ Len(top) = Min(10, Cardinality(PatternNames(store)))
              /\ \A i \in 1..(Len(top) - 1) :
                     top[i].conteggio >= top[i + 1].conteggio
              /\ \A i \in 1..Len(top) :
                     top[i].conteggio = Occurrences(top[i].nome, store)
              /\ \A p \in PatternNames(store) \ listed :
                     \A i \in 1..Len(top) :
                         Occurrences(p, store) <= top[i].conteggio

\* more than 10 patterns, unequal counts, a repeat inside one list and a tie
\* at the cut
C4_Witness ==
    /\ resp.response.op = "overview"
    /\ resp.response.status = 200
    /\ Len(resp.response.pattern_top) = 10
    /\ Cardinality(PatternNames(store)) > 10
    /\ resp.response.pattern_top[1].conteggio > resp.response.pattern_top[10].conteggio
    /\ \E i \in 1..Len(store) : ListOf(store[i]) = <<NPat, NPat, 1>>
    /\ \E p \in PatternNames(store) :
          /\ \A i \in 1..10 : resp.response.pattern_top[i].nome # p
          /\ Occurrences(p, store) = resp.response.pattern_top[10].conteggio

\* C5: warning_correnti of GET /regina/overview is the low-energy advisory,
\* once, when at least 3 stored events have stato_interno.energia <= 2 (an
\* event without energia counts as energia 3), and is empty otherwise.
C5_LowEnergyWarning ==
    resp.response.op = "overview"
    => /\ resp.response.status = 200
       /\ resp.response.warning_correnti =
             IF Cardinality(LowEnergyStored) >= 3
             THEN <<LowEnergyAdvice>> ELSE <<>>

\* five events, exactly three of them low, one without stato_interno
C5_Witness ==
    /\ resp.response.op = "overview"
    /\ Len(store) = 5
    /\ Cardinality(LowEnergyStored) = 3
    /\ \E i \in 1..5 : "stato_interno" \notin DOMAIN store[i]
    /\ resp.response.warning_correnti = <<LowEnergyAdvice>>

\* C6: with T = max(number of events, 1), c the number of events holding
\* both patterns of a pair and fa, fb the number holding each, GET
\* /regina/alerts reports the pair exactly when c >= 1 and c*T > 2*fa*fb,
\* then once, with a significance within half a hundredth of c*T/(fa*fb);
\* it reports nothing else.
C6_AlertsExactThreshold ==
    resp.response.op = "alerts"
    => /\ resp.response.status = 200
       /\ LET sinc  == resp.response.sincronicita
              T     == Max(Len(store), 1)
              names == PatternNames(store)
          IN  /\ \A a \in names : \A b \in names :
                   a < b =>
                     LET c    == CoCount(a, b, store)
                         fa   == Freq(a, store)
                         fb   == Freq(b, store)
                         hits == {j \in 1..Len(sinc) :
                                     /\ sinc[j].pattern_a = a
                                     /\ sinc[j].pattern_b = b}
                     IN  /\ Cardinality(hits) =
                               IF c >= 1 /\ c * T > 2 * fa * fb THEN 1 ELSE 0
                         /\ \A j \in hits :
                              LET d == sinc[j].significance * fa * fb
                                         - 100 * c * T
                              IN  2 * d <= fa * fb /\ 0 - 2 * d <= fa * fb
              /\ \A j \in 1..Len(sinc) :
                   /\ sinc[j].pattern_a \in names
                   /\ sinc[j].pattern_b \in names
                   /\ sinc[j].pattern_a < sinc[j].pattern_b

\* T = 30, fa = 5, fb = 9, c = 3: c*T = 2*fa*fb, and the pair is reported
C6_BoundaryPairReported ==
    /\ resp.response.op = "alerts"
    /\ Len(store) = 30
    /\ CoCount(1, 2, store) = 3
    /\ Freq(1, store) = 5
    /\ Freq(2, store) = 9
    /\ Len(resp.response.sincronicita) = 1
    /\ resp.response.sincronicita[1].significance = 200

\* C7: while the response of a successful POST /event is the latest one, a
\* completed load_all_events holds the event that POST returned, with
\* titolo, descrizione, tipo, contesto and stato_interno as submitted.
C7_RoundTrip ==
    (pc = "scan" /\ last = 0 /\ PostOk)
    => \E i \in 1..Len(items) :
          /\ items[i] = resp.response.event
          /\ items[i].key = resp.response.id
          /\ items[i].titolo = resp.input.titolo
          /\ items[i].descrizione = resp.input.descrizione
          /\ items[i].tipo = resp.input.tipo
          /\ items[i].contesto = resp.input.contesto
          /\ items[i].stato_interno = resp.input.stato_interno

\* the third event, with its optional fields set, fetched over two pages
C7_Witness ==
    /\ pc = "scan"
    /\ last = 0
    /\ PostOk
    /\ Len(items) = 3
    /\ resp.response.event = items[3]
    /\ resp.input.contesto.luogo = Str("Roma")

\* C8: every step keeps each stored event, under its id and with all its
\* fields, and can only append; the steps of the two GET handlers leave the
\* store unchanged; every stored outcome is compilato = false with the other
\* fields null.
C8_AppendOnly ==
    /\ [](\A i \in 1..Len(store) : store[i].outcome = EmptyOutcome)
    /\ [][/\ Len(store') >= Len(store)
          /\ SubSeq(store', 1, Len(store)) = store
          /\ (pc = "scan" \/ pc' = "scan") => store' = store]_vars

\* an alerts request answered after three events were stored
C8_Witness ==
    /\ Len(store) = 3
    /\ resp.response.op = "alerts"
    /\ pc = "idle"

\* C9: the number of stored events is the number of POST /event requests
\* answered ok, stored ids are pairwise distinct, and a request whose model
\* call raises is answered with an error and leaves the store as it was.
C9_OnePutPerOk ==
    /\ [](/\ nOk = Len(store)
          /\ \A i \in 1..Len(store) : \A j \in 1..Len(store) :
                 i # j => store[i].key # store[j].key)
    /\ [][(nPosts' # nPosts /\ Replies[resp'.reply].raises)
            => (store' = store /\ resp'.response.status = 500)]_vars

\* the same body stored twice under two ids, then a request whose model
\* call raised
C9_Witness ==
    /\ nPosts = 3
    /\ nOk = 2
    /\ Len(store) = 2
    /\ store[1].titolo = store[2].titolo
    /\ store[1].pattern_rilevati = store[2].pattern_rilevati
    /\ store[1].key # store[2].key
    /\ PostAnswered
    /\ resp.reply = 1
    /\ resp.response.status = 500

\* C10: a scan of an unchanging store holds after each fetch a prefix of the
\* store, grows with every further fetch, ends (the handler returns) and at
\* a null cursor holds exactly the stored events, each once; totale_eventi
\* is the number of stored events; on an empty store overview answers 0, []
\* and [] and alerts answers sincronicita [].
C10_ScanReturnsAll ==
    /\ [](pc = "scan" =>
             /\ Len(items) <= Len(store)
             /\ items = SubSeq(store, 1, Len(items))
             /\ last = 0 => items = store
             /\ last # 0 => (Len(items) >= 1 /\ last = items[Len(items)].key))
    /\ []((resp.response.op = "overview" /\ resp.response.status = 200)
            => resp.response.totale_eventi = Len(store))
    /\ []((resp.response.op = "overview" /\ Len(store) = 0)
            => /\ resp.response.status = 200
               /\ resp.response.totale_eventi = 0
               /\ resp.response.pattern_top = <<>>
               /\ resp.response.warning_correnti = <<>>)
    /\ []((resp.response.op = "alerts" /\ Len(store) = 0)
            => /\ resp.response.status = 200
               /\ resp.response.sincronicita = <<>>)
    /\ [][(pc = "scan" /\ pc' = "scan") => Len(items') > Len(items)]_vars
    /\ (pc = "scan" ~> pc = "idle")

\* three events loaded over at least two pages
C10_Witness ==
    /\ pc = "scan"
    /\ last = 0
    /\ Len(items) = 3
    /\ items = store

====
